---- MODULE Spec2Model ----
(***************************************************************************)
(* Model of the ReportAI smart-flow client (class SmartReportGenerator):   *)
(* the four-step wizard, the analyze / generate gateway calls with their   *)
(* in-flight requests and timers, and the image manifest builder.          *)
(***************************************************************************)
EXTENDS Integers, Sequences, FiniteSets

\* ------------------------------------------------------------------------
\* Bounds of the model
\* ------------------------------------------------------------------------
\* fetches in flight at a time, and timers pending at a time
MaxRequests == 1
MaxTimers == 2
MaxImages == 2
MaxCaptionLen == 2
\* /upload-images fetches in flight at a time, where the image list is kept
MaxUploads == 2
\* /generate-report calls of the traditional page in flight at a time, where
\* the page is kept
MaxSubmits == 2
\* a score is a whole number of 1/ScoreScale
ScoreScale == 10

\* ------------------------------------------------------------------------
\* Values
\* ------------------------------------------------------------------------
totalSteps == 4

Steps == 1..totalSteps

\* sample_file.files: 0 is the empty selection, 1 and 2 are two sample documents
Files == {1, 2}
NoFile == 0

\* document ids the server may assign; null and undefined are the falsy ids
DocIds == {1, 2}
NullId == 0
UndefinedId == -1
AllIds == DocIds \cup {NullId, UndefinedId}

Falsy(id) == id \in {NullId, UndefinedId}

\* an absent object is the empty sequence, a present one a one-element sequence
Null == << >>
Some(x) == << x >>

\* characters of a text input: a blank and a letter
Chars == {" ", "a"}

\* the texts of at most n characters
Texts(n) == UNION {[1..k -> Chars] : k \in 0..n}

VARIABLES
  currentStep,            \* this.currentStep
  documentId,             \* this.documentId
  analysisData,           \* this.analysisData
  uploadedImages,         \* this.uploadedImages (filenames)
  sampleFile,             \* #sample_file selection
  analysisPreviewHidden,  \* #analysisPreview has class hidden
  activePanel,            \* which .step-content has class active
  stepClasses,            \* .step indicators: [active, completed] sets of indices
  progressFill,           \* #progressFill width in percent
  status,                 \* #status: [msg, kind, hidden]
  loadingHidden,          \* #loadingOverlay has class hidden
  analyzeInFlight,        \* pending /analyze-sample fetches per sent file
  generateInFlight,       \* pending /generate-smart-report fetches per document_id
  blobPending,            \* generateReport calls awaiting response.blob()
  statusQueries,          \* pending /gemini-status fetches
  uploadInFlight,         \* pending /upload-images fetches
  configureInFlight,      \* pending /configure-gemini fetches
  apiStatus,              \* #apiStatus text
  imageFiles,             \* #image_files: how many files are selected
  uploadFiles,            \* pending /upload-images fetches, by the files sent
  formattingScore,        \* #formattingScore text, where the preview texts are kept
  downloadLog,            \* what the last download of each page did, in order
  tradStatus,             \* traditional page, #status: [text, classes]
  tradDisabled,           \* traditional page, #generateBtn disabled
  tradFetch,              \* traditional page, pending /generate-report fetches
  tradErrorBody,          \* traditional page, calls awaiting response.json()
  tradBlob,               \* traditional page, calls awaiting response.blob()
  advanceTimers,          \* pending setTimeout(() => this.nextStep(), 1500)
  hideTimers,             \* pending setTimeout(hide status, 5000)
  captionInputs,          \* .caption-input values, by position
  sectionSelects,         \* .section-select values, by position
  imageData,              \* result of the last prepareImageData()
  docFile,                \* history: the file whose analysis the held result came from
  storedIds,              \* history: document ids stored from analyze responses
  sentFiles,              \* history: files an analyze request was sent for
  last,                   \* history: the handler that ran last and what it saw
  observed                \* the groups of write-only outputs a specification keeps

vars == << currentStep, documentId, analysisData, uploadedImages, sampleFile,
           analysisPreviewHidden, activePanel, stepClasses, progressFill, status,
           loadingHidden, analyzeInFlight, generateInFlight, blobPending,
           statusQueries, uploadInFlight, configureInFlight, apiStatus,
           advanceTimers, hideTimers, captionInputs, sectionSelects, imageData,
           docFile, storedIds, sentFiles, last, observed, imageFiles, uploadFiles,
           formattingScore,
           downloadLog, tradStatus, tradDisabled, tradFetch, tradErrorBody,
           tradBlob >>

stepVars == << currentStep, activePanel, stepClasses, progressFill >>
manifestVars == << uploadedImages, captionInputs, sectionSelects, imageData >>
geminiVars == << statusQueries, observed, apiStatus >>
uploadVars == << uploadInFlight, configureInFlight >>
tradVars == << tradStatus, tradDisabled, tradFetch, tradErrorBody, tradBlob >>
\* what the handlers of the smart page, its download apart, do not touch
otherVars == << formattingScore, tradVars >>
selectionVars == << imageFiles, uploadFiles >>
provenanceVars == << docFile, storedIds, sentFiles >>

\* The code reads currentStep, documentId, uploadedImages, the form inputs and
\* its pending requests and timers; everything else it only writes (DOM
\* classes and texts, analysisData) or is history kept for the properties.
\* A specification keeps the groups of write-only outputs named in observed
\* and leaves the others at their initial value: no handler depends on them.
Groups == {"steps", "status", "loading", "analysis", "provenance", "history",
           "images", "engine", "download", "traditional", "score", "uploads"}

Write(group, new, old) == IF group \in observed THEN new ELSE old

\* ------------------------------------------------------------------------
\* Pure helpers
\* ------------------------------------------------------------------------
IsBlank(c) == c = " "

RECURSIVE TrimStart(_)
TrimStart(s) ==
  IF s = << >> THEN << >>
  ELSE IF IsBlank(Head(s)) THEN TrimStart(Tail(s)) ELSE s

RECURSIVE TrimEnd(_)
TrimEnd(s) ==
  IF s = << >> THEN << >>
  ELSE IF IsBlank(s[Len(s)]) THEN TrimEnd(SubSeq(s, 1, Len(s) - 1)) ELSE s

\* String.prototype.trim
Trim(s) == TrimEnd(TrimStart(s))

\* the number of requests of a bag of pending requests (a count per key)
RECURSIVE SumOver(_, _)
SumOver(b, D) == IF D = {} THEN 0 ELSE LET d == CHOOSE x \in D : TRUE IN b[d] + SumOver(b, D \ {d})

BagSize(b) == SumOver(b, DOMAIN b)

\* fetches in flight that share the budget MaxRequests (a generateReport call
\* awaiting its blob still holds one): all of them, but for the uploads of a
\* specification that keeps the image list, which have the budget MaxUploads,
\* and for the calls of a specification that keeps the traditional page, which
\* have the budget MaxSubmits
Requests ==
  BagSize(analyzeInFlight) + BagSize(generateInFlight) + blobPending + statusQueries
    + configureInFlight + (IF "images" \in observed THEN 0 ELSE uploadInFlight)
    + (IF "traditional" \in observed THEN 0 ELSE tradFetch + tradErrorBody + tradBlob)

\* timers pending
Timers == advanceTimers + hideTimers

\* ------------------------------------------------------------------------
\* Display helpers (methods of SmartReportGenerator that only touch the DOM)
\* ------------------------------------------------------------------------
\* showStatus setting no timer
showStatus_NoTimer(message, type) ==
  /\ status' = Write("status", [msg |-> message, kind |-> type, hidden |-> FALSE], status)
  /\ hideTimers' = hideTimers

\* showStatus(message, type): the message is shown; a success message also
\* schedules the 5000 ms hide timer
showStatus(message, type) ==
  /\ status' = Write("status", [msg |-> message, kind |-> type, hidden |-> FALSE], status)
  /\ IF type = "success"
       THEN /\ Timers < MaxTimers
            /\ hideTimers' = hideTimers + 1
       ELSE hideTimers' = hideTimers

\* showLoading that never hides the overlay again
showLoading_NeverHides(show) ==
  loadingHidden' = Write("loading", IF show THEN FALSE ELSE loadingHidden, loadingHidden)

\* showLoading(show)
showLoading(show) == loadingHidden' = Write("loading", ~show, loadingHidden)

\* the indicator loop of updateStepDisplay for a given current step
updateStepDisplay(step) ==
  [active |-> {i \in Steps : i <= step}, completed |-> {i \in Steps : i < step}]

\* the indicator loop of updateProgress(step, _) applied to indicator classes c
updateProgress(c, step) ==
  [active    |-> (c.active \cup {i \in Steps : i = step}) \ {i \in Steps : i > step},
   completed |-> (c.completed \cup {i \in Steps : i < step}) \ {i \in Steps : i > step}]

\* ------------------------------------------------------------------------
\* Wizard navigation
\* ------------------------------------------------------------------------
\* the redraw leaving the panel of the step left on display
showStep_KeepsPanel(n) ==
  /\ currentStep' = n
  /\ activePanel' = activePanel
  /\ stepClasses' = Write("steps", updateProgress(updateStepDisplay(n), n), stepClasses)
  /\ progressFill' = Write("steps", (n * 100) \div totalSteps, progressFill)

\* the body of the if of nextStep / previousStep: the step becomes n and the
\* panel, the indicators and the progress bar are redrawn for it
showStep(n) ==
  /\ currentStep' = n
  /\ activePanel' = Write("steps", n, activePanel)
  /\ stepClasses' = Write("steps", updateProgress(updateStepDisplay(n), n), stepClasses)
  /\ progressFill' = Write("steps", (n * 100) \div totalSteps, progressFill)

\* nextStep without its guard
nextStep_Unguarded == showStep(currentStep + 1)

\* nextStep redrawing the display even when it does not move
nextStep_Redraws ==
  showStep(IF currentStep < totalSteps THEN currentStep + 1 ELSE currentStep)

\* nextStep refusing to enter the last step
nextStep_StopsEarly ==
  IF currentStep < totalSteps - 1 THEN showStep(currentStep + 1) ELSE UNCHANGED stepVars

nextStep ==
  IF currentStep < totalSteps THEN showStep(currentStep + 1) ELSE UNCHANGED stepVars

\* previousStep with its guard off by one
previousStep_OffByOne ==
  IF currentStep >= 1 THEN showStep(currentStep - 1) ELSE UNCHANGED stepVars

previousStep ==
  IF currentStep > 1 THEN showStep(currentStep - 1) ELSE UNCHANGED stepVars

\* history record of a handler run: its name, the step it started at and, for a
\* sample-file change, the document id it found held
Seen(op) ==
  Write("history",
        [op |-> op, step |-> currentStep,
         held |-> IF op = "sampleFileChange" THEN documentId ELSE NullId],
        last)

\* click on nextStep2 / nextStep3 / nextStep4
NextStep ==
  /\ nextStep
  /\ last' = Seen("nextStep")
  /\ UNCHANGED << documentId, analysisData, sampleFile, analysisPreviewHidden, status,
                  loadingHidden, analyzeInFlight, generateInFlight, blobPending,
                  advanceTimers, hideTimers, docFile, storedIds, sentFiles >>
  /\ UNCHANGED << manifestVars, geminiVars, uploadVars >>
  /\ UNCHANGED << otherVars, downloadLog >>
  /\ UNCHANGED selectionVars

\* click on prevStep2 / prevStep3 / prevStep4
PreviousStep ==
  /\ previousStep
  /\ last' = Seen("previousStep")
  /\ UNCHANGED << documentId, analysisData, sampleFile, analysisPreviewHidden, status,
                  loadingHidden, analyzeInFlight, generateInFlight, blobPending,
                  advanceTimers, hideTimers, docFile, storedIds, sentFiles >>
  /\ UNCHANGED << manifestVars, geminiVars, uploadVars >>
  /\ UNCHANGED << otherVars, downloadLog >>
  /\ UNCHANGED selectionVars

\* the 1500 ms timer set by a successful analysis fires and calls nextStep()
AdvanceTimerFire ==
  /\ advanceTimers > 0
  /\ advanceTimers' = advanceTimers - 1
  /\ nextStep
  /\ last' = Seen("autoAdvance")
  /\ UNCHANGED << documentId, analysisData, sampleFile, analysisPreviewHidden, status,
                  loadingHidden, analyzeInFlight, generateInFlight, blobPending,
                  hideTimers, docFile, storedIds, sentFiles >>
  /\ UNCHANGED << manifestVars, geminiVars, uploadVars >>
  /\ UNCHANGED << otherVars, downloadLog >>
  /\ UNCHANGED selectionVars

\* the 5000 ms timer set by showStatus(_, "success") fires
HideTimerFire ==
  /\ hideTimers > 0
  /\ hideTimers' = hideTimers - 1
  /\ status' = Write("status", [status EXCEPT !.hidden = TRUE], status)
  /\ last' = Seen("hideStatus")
  /\ UNCHANGED << stepVars, documentId, analysisData, sampleFile, analysisPreviewHidden,
                  loadingHidden, analyzeInFlight, generateInFlight, blobPending,
                  advanceTimers, docFile, storedIds, sentFiles >>
  /\ UNCHANGED << manifestVars, geminiVars, uploadVars >>
  /\ UNCHANGED << otherVars, downloadLog >>
  /\ UNCHANGED selectionVars

\* ------------------------------------------------------------------------
\* Sample file selection
\* ------------------------------------------------------------------------
\* resetAnalysis forgetting to clear the document id
resetAnalysis_KeepsId ==
  /\ analysisPreviewHidden' = Write("analysis", TRUE, analysisPreviewHidden)
  /\ analysisData' = Write("analysis", Null, analysisData)
  /\ documentId' = documentId

resetAnalysis ==
  /\ analysisPreviewHidden' = Write("analysis", TRUE, analysisPreviewHidden)
  /\ analysisData' = Write("analysis", Null, analysisData)
  /\ documentId' = NullId

\* the change handler also dropping the analyze requests in flight
SampleFileChange_Cancels(f) ==
  /\ f # sampleFile
  /\ sampleFile' = f
  /\ resetAnalysis
  /\ docFile' = Write("provenance", NoFile, docFile)
  /\ analyzeInFlight' = [g \in Files |-> 0]
  /\ last' = Seen("sampleFileChange")
  /\ UNCHANGED << stepVars, status, loadingHidden, generateInFlight,
                  blobPending, advanceTimers, hideTimers, storedIds, sentFiles >>
  /\ UNCHANGED << manifestVars, geminiVars, uploadVars >>
  /\ UNCHANGED << otherVars, downloadLog >>
  /\ UNCHANGED selectionVars

\* change event of #sample_file: the selection becomes f (NoFile: cleared)
SampleFileChange(f) ==
  /\ f # sampleFile
  /\ sampleFile' = f
  /\ resetAnalysis
  /\ docFile' = Write("provenance", NoFile, docFile)
  /\ last' = Seen("sampleFileChange")
  /\ UNCHANGED << stepVars, status, loadingHidden, analyzeInFlight, generateInFlight,
                  blobPending, advanceTimers, hideTimers, storedIds, sentFiles >>
  /\ UNCHANGED << manifestVars, geminiVars, uploadVars >>
  /\ UNCHANGED << otherVars, downloadLog >>
  /\ UNCHANGED selectionVars

\* ------------------------------------------------------------------------
\* Analyze
\* ------------------------------------------------------------------------
StatusTexts == {"Internal Server Error"}

\* the JSON body of an /analyze-sample answer: its document_id may be missing,
\* and so may the fields displayAnalysisResults reads
Bodies == [document_id : DocIds \cup {UndefinedId}, complete : BOOLEAN]

NoBody == [document_id |-> UndefinedId, complete |-> FALSE]

\* what a fetch can settle to: a rejected promise, a non-2xx answer, a 2xx
\* answer whose body is not JSON, a 2xx answer with a JSON body
Response(kind, statusText, body) == [kind |-> kind, statusText |-> statusText, body |-> body]

AnalyzeResponses ==
  {Response("transport", "", NoBody), Response("unparsable", "OK", NoBody)}
    \cup {Response("http", t, NoBody) : t \in StatusTexts}
    \cup {Response("json", "OK", b) : b \in Bodies}

\* the call runs its try block to the end
AnalyzeSucceeds(r) == r.kind = "json" /\ r.body.complete

\* the catch block losing the reason
AnalyzeError_NoReason(r) == << "Something went wrong" >>

\* error.message of what the try block throws
AnalyzeError(r) ==
  CASE r.kind = "transport"  -> << "Failed to fetch" >>
    [] r.kind = "http"       -> << "Analysis failed", r.statusText >>
    [] r.kind = "unparsable" -> << "SyntaxError" >>
    [] OTHER                 -> << "TypeError" >>

\* click on analyzeBtn: analyzeSample() up to its await
AnalyzeSample ==
  /\ IF sampleFile = NoFile
       THEN /\ showStatus(<< "Please select a sample document first." >>, "error")
            /\ UNCHANGED << loadingHidden, progressFill, stepClasses, analyzeInFlight,
                            sentFiles >>
       ELSE /\ Requests < MaxRequests
            /\ showLoading(TRUE)
            /\ progressFill' = Write("steps", 25, progressFill)
            /\ stepClasses' = Write("steps", updateProgress(stepClasses, 1), stepClasses)
            /\ analyzeInFlight' = [analyzeInFlight EXCEPT ![sampleFile] = @ + 1]
            /\ sentFiles' = Write("provenance", sentFiles \cup {sampleFile}, sentFiles)
            /\ UNCHANGED << status, hideTimers >>
  /\ last' = Seen("analyzeSample")
  /\ UNCHANGED << currentStep, activePanel, documentId, analysisData, sampleFile,
                  analysisPreviewHidden, generateInFlight, blobPending, advanceTimers,
                  docFile, storedIds >>
  /\ UNCHANGED << manifestVars, geminiVars, uploadVars >>
  /\ UNCHANGED << otherVars, downloadLog >>
  /\ UNCHANGED selectionVars

\* the fetch of an analyzeSample() call that sent file f settles with r:
\* the rest of the try block, or the catch block
AnalyzeResponse(f, r) ==
  /\ analyzeInFlight[f] > 0
  /\ analyzeInFlight' = [analyzeInFlight EXCEPT ![f] = @ - 1]
  /\ IF r.kind = "json"
       THEN /\ analysisData' = Write("analysis", Some(r.body), analysisData)
            /\ documentId' = r.body.document_id
            /\ analysisPreviewHidden' = Write("analysis", FALSE, analysisPreviewHidden)
            /\ docFile' = Write("provenance", f, docFile)
            /\ storedIds' = Write("provenance", storedIds \cup ({r.body.document_id} \cap DocIds),
                                  storedIds)
       ELSE UNCHANGED << analysisData, documentId, analysisPreviewHidden, docFile, storedIds >>
  /\ IF AnalyzeSucceeds(r)
       THEN /\ progressFill' = Write("steps", 100, progressFill)
            /\ stepClasses' = Write("steps", updateProgress(stepClasses, 1), stepClasses)
            /\ showStatus(<< "Document analyzed successfully!" >>, "success")
            /\ statusQueries' = statusQueries + 1
            /\ Timers + 2 <= MaxTimers
            /\ advanceTimers' = advanceTimers + 1
            /\ last' = Seen("analyzeSuccess")
       ELSE /\ showStatus(<< "Analysis error" >> \o AnalyzeError(r), "error")
            /\ last' = Seen("analyzeError")
            /\ UNCHANGED << progressFill, stepClasses, statusQueries, advanceTimers >>
  /\ showLoading(FALSE)
  /\ UNCHANGED << currentStep, activePanel, sampleFile, generateInFlight, blobPending,
                  sentFiles, observed, apiStatus >>
  /\ UNCHANGED << manifestVars, uploadVars >>
  /\ UNCHANGED << otherVars, downloadLog >>
  /\ UNCHANGED selectionVars

\* ------------------------------------------------------------------------
\* Engine status query
\* ------------------------------------------------------------------------
\* what /gemini-status can settle to: no usable answer (a rejected fetch, a
\* body that is not JSON or lacks generation_status), or configured true / false
StatusAnswers == {"unusable", "configured", "notConfigured"}

\* the catch block reporting the failure to the user
GeminiStatusResponse_Surfaces(a) ==
  /\ statusQueries > 0
  /\ statusQueries' = statusQueries - 1
  /\ apiStatus' = Write("engine",
                        CASE a = "configured"    -> "Configured"
                          [] a = "notConfigured" -> "Not configured"
                          [] OTHER               -> apiStatus,
                        apiStatus)
  /\ IF a = "unusable"
       THEN showStatus(<< "Could not check Gemini status" >>, "error")
       ELSE UNCHANGED << status, hideTimers >>
  /\ last' = Seen(IF a = "unusable" THEN "geminiStatusFailed" ELSE "geminiStatus")
  /\ UNCHANGED << stepVars, documentId, analysisData, sampleFile, analysisPreviewHidden,
                  loadingHidden, analyzeInFlight, generateInFlight, blobPending,
                  advanceTimers, docFile, storedIds, sentFiles >>
  /\ UNCHANGED << manifestVars, observed, uploadVars >>
  /\ UNCHANGED << otherVars, downloadLog >>
  /\ UNCHANGED selectionVars

\* the fetch of a checkGeminiStatus() call settles: a usable answer is written
\* to #engineStatus (a text the model does not keep) and #apiStatus, a failure
\* is logged to the console
GeminiStatusResponse(a) ==
  /\ statusQueries > 0
  /\ statusQueries' = statusQueries - 1
  /\ apiStatus' = Write("engine",
                        CASE a = "configured"    -> "Configured"
                          [] a = "notConfigured" -> "Not configured"
                          [] OTHER               -> apiStatus,
                        apiStatus)
  /\ last' = Seen(IF a = "unusable" THEN "geminiStatusFailed" ELSE "geminiStatus")
  /\ UNCHANGED << stepVars, documentId, analysisData, sampleFile, analysisPreviewHidden,
                  status, loadingHidden, analyzeInFlight, generateInFlight, blobPending,
                  advanceTimers, hideTimers, docFile, storedIds, sentFiles >>
  /\ UNCHANGED << manifestVars, observed, uploadVars >>
  /\ UNCHANGED << otherVars, downloadLog >>
  /\ UNCHANGED selectionVars

\* ------------------------------------------------------------------------
\* Image upload
\* ------------------------------------------------------------------------
\* filenames the server may report for uploaded images
Images == {1, 2}

\* the uploaded_images lists of an /upload-images answer
ImageLists == UNION {[1..k -> Images] : k \in 0..MaxImages}

\* what the fetch of handleImageUpload can settle to: a rejected promise, an
\* answer whose body is not JSON, a non-2xx answer with a JSON error body (it
\* has no uploaded_images), a 2xx answer with a JSON body
UploadResponses ==
  {Response("transport", "", << >>), Response("unparsable", "OK", << >>)}
    \cup {Response("http", t, << >>) : t \in StatusTexts}
    \cup {Response("json", "OK", l) : l \in ImageLists}

\* the promise chain reaches its second then: response.json() resolved. The
\* chain does not look at response.ok
UploadParsed(r) == r.kind \in {"json", "http"}

\* data.uploaded_images || []
UploadedList(r) == IF r.kind = "json" THEN r.body ELSE << >>

\* `${this.uploadedImages.length}`: the decimal text of a list length
CountText(n) == << "0", "1", "2", "3", "4" >>[n + 1]

\* error.message of a rejected chain
UploadError(r) == IF r.kind = "transport" THEN "Failed to fetch" ELSE "SyntaxError"

\* the assignment appending to the list held
SetImages_Merges(held, list) == held \o list

\* this.uploadedImages = data.uploaded_images || []
SetImages(held, list) == list

\* displayImageList(): one empty caption input and one section select, showing
\* its first option, per image
FreshCaptions(list) == [i \in 1..Len(list) |-> << >>]

FreshSections(list) == [i \in 1..Len(list) |-> "auto"]

\* the fetch that sent n files is pending
SendFiles(n) ==
  uploadFiles' = Write("uploads", [uploadFiles EXCEPT ![n] = @ + 1], uploadFiles)

\* one of the pending fetches settles
SettleFiles ==
  IF "uploads" \in observed
    THEN \E n \in 1..MaxImages :
           /\ uploadFiles[n] > 0
           /\ uploadFiles' = [uploadFiles EXCEPT ![n] = @ - 1]
    ELSE UNCHANGED uploadFiles

\* the budget of an upload
CanUpload ==
  IF "images" \in observed THEN uploadInFlight < MaxUploads ELSE Requests < MaxRequests

\* change event of #image_files with n files selected: handleImageUpload(files)
\* up to its fetch
HandleImageUpload(n) ==
  /\ uploadedImages' = Write("images", << >>, uploadedImages)
  /\ captionInputs' = Write("images", << >>, captionInputs)
  /\ sectionSelects' = Write("images", << >>, sectionSelects)
  /\ imageFiles' = Write("uploads", n, imageFiles)
  /\ IF n = 0
       THEN UNCHANGED << loadingHidden, uploadInFlight, uploadFiles >>
       ELSE /\ CanUpload
            /\ showLoading(TRUE)
            /\ uploadInFlight' = uploadInFlight + 1
            /\ SendFiles(n)
  /\ last' = Seen("handleImageUpload")
  /\ UNCHANGED << stepVars, documentId, analysisData, sampleFile, analysisPreviewHidden,
                  status, analyzeInFlight, generateInFlight, blobPending, advanceTimers,
                  hideTimers, docFile, storedIds, sentFiles, imageData, configureInFlight >>
  /\ UNCHANGED geminiVars
  /\ UNCHANGED << otherVars, downloadLog >>

\* the catch callback sending the request again
UploadResponse_Retries(r) ==
  /\ uploadInFlight > 0
  /\ uploadInFlight' = IF UploadParsed(r) THEN uploadInFlight - 1 ELSE uploadInFlight
  /\ IF UploadParsed(r) THEN SettleFiles ELSE UNCHANGED uploadFiles
  /\ UNCHANGED imageFiles
  /\ IF UploadParsed(r)
       THEN LET list == SetImages(uploadedImages, UploadedList(r)) IN
            /\ uploadedImages' = Write("images", list, uploadedImages)
            /\ captionInputs' = Write("images", FreshCaptions(list), captionInputs)
            /\ sectionSelects' = Write("images", FreshSections(list), sectionSelects)
            /\ showStatus(<< CountText(Len(list)), "images uploaded successfully!" >>, "success")
            /\ last' = Seen("uploadSuccess")
       ELSE /\ showStatus(<< "Image upload failed", UploadError(r) >>, "error")
            /\ last' = Seen("uploadError")
            /\ UNCHANGED << uploadedImages, captionInputs, sectionSelects >>
  /\ showLoading(FALSE)
  /\ UNCHANGED << stepVars, documentId, analysisData, sampleFile, analysisPreviewHidden,
                  analyzeInFlight, generateInFlight, blobPending, advanceTimers,
                  docFile, storedIds, sentFiles, imageData, configureInFlight >>
  /\ UNCHANGED geminiVars
  /\ UNCHANGED << otherVars, downloadLog >>

\* the fetch of a handleImageUpload() call settles with r: the then chain, or
\* the catch callback
UploadResponse(r) ==
  /\ uploadInFlight > 0
  /\ uploadInFlight' = uploadInFlight - 1
  /\ SettleFiles
  /\ UNCHANGED imageFiles
  /\ IF UploadParsed(r)
       THEN LET list == SetImages(uploadedImages, UploadedList(r)) IN
            /\ uploadedImages' = Write("images", list, uploadedImages)
            /\ captionInputs' = Write("images", FreshCaptions(list), captionInputs)
            /\ sectionSelects' = Write("images", FreshSections(list), sectionSelects)
            /\ showStatus(<< CountText(Len(list)), "images uploaded successfully!" >>, "success")
            /\ last' = Seen("uploadSuccess")
       ELSE /\ showStatus(<< "Image upload failed", UploadError(r) >>, "error")
            /\ last' = Seen("uploadError")
            /\ UNCHANGED << uploadedImages, captionInputs, sectionSelects >>
  /\ showLoading(FALSE)
  /\ UNCHANGED << stepVars, documentId, analysisData, sampleFile, analysisPreviewHidden,
                  analyzeInFlight, generateInFlight, blobPending, advanceTimers,
                  docFile, storedIds, sentFiles, imageData, configureInFlight >>
  /\ UNCHANGED geminiVars
  /\ UNCHANGED << otherVars, downloadLog >>

\* what the user types into a caption input: a blank, a letter
Typed == {<< " " >>, << "a" >>}

\* input event on the caption input of image i
TypeCaption(i, text) ==
  /\ i \in 1..Len(captionInputs)
  /\ captionInputs' = Write("images", [captionInputs EXCEPT ![i] = text], captionInputs)
  /\ UNCHANGED << stepVars, documentId, analysisData, sampleFile, analysisPreviewHidden,
                  status, loadingHidden, analyzeInFlight, generateInFlight, blobPending,
                  advanceTimers, hideTimers, docFile, storedIds, sentFiles, imageData,
                  uploadedImages, sectionSelects, last >>
  /\ UNCHANGED << geminiVars, uploadVars, selectionVars >>
  /\ UNCHANGED << otherVars, downloadLog >>

\* ------------------------------------------------------------------------
\* Image manifest
\* ------------------------------------------------------------------------
\* the options of a .section-select
Sections == {"auto", "introduction", "objectives", "methodology", "results", "conclusion"}

\* the test of the loop body without the trim
Included_NoTrim(images, captions, i) == captions[i] # << >> /\ i <= Len(images)

\* the test of prepareImageData's loop body at position i
Included(images, captions, i) == Trim(captions[i]) # << >> /\ i <= Len(images)

\* prepareImageData() reading the image list from its end
prepareImageData_Reversed(images, captions, sections) ==
  LET RECURSIVE From(_)
      From(i) ==
        IF i > Len(captions) THEN << >>
        ELSE (IF Included(images, captions, i)
                THEN << [filename |-> images[Len(images) + 1 - i],
                         caption |-> Trim(captions[i]),
                         content_relevance |-> sections[i]] >>
                ELSE << >>) \o From(i + 1)
  IN From(1)

\* prepareImageData(): one entry per caption input that passes the test, in
\* the order of the inputs
prepareImageData(images, captions, sections) ==
  LET RECURSIVE From(_)
      From(i) ==
        IF i > Len(captions) THEN << >>
        ELSE (IF Included(images, captions, i)
                THEN << [filename |-> images[i],
                         caption |-> Trim(captions[i]),
                         content_relevance |-> sections[i]] >>
                ELSE << >>) \o From(i + 1)
  IN From(1)

\* prepareImageData() on the current image list and annotation fields
PrepareImageData ==
  /\ last.op = "init"
  /\ imageData' = prepareImageData(uploadedImages, captionInputs, sectionSelects)
  /\ last' = Seen("prepareImageData")
  /\ UNCHANGED << stepVars, documentId, analysisData, sampleFile, analysisPreviewHidden,
                  status, loadingHidden, analyzeInFlight, generateInFlight, blobPending,
                  advanceTimers, hideTimers, docFile, storedIds, sentFiles, uploadedImages,
                  captionInputs, sectionSelects >>
  /\ UNCHANGED << geminiVars, uploadVars >>
  /\ UNCHANGED << otherVars, downloadLog >>
  /\ UNCHANGED selectionVars

\* ------------------------------------------------------------------------
\* Generate
\* ------------------------------------------------------------------------
requiredFields == << "student_name_smart", "roll_no_smart", "topic_smart" >>

\* the values of the required inputs at the time of a click
\* an empty, a blank and a filled-in text
FieldTexts == {<< >>, << " " >>, << " ", "a" >>}

FieldInputs == [{requiredFields[i] : i \in 1..Len(requiredFields)} -> FieldTexts]

\* the validation loop without the trim
EmptyFields_NoTrim(fields) ==
  {i \in 1..Len(requiredFields) : fields[requiredFields[i]] = << >>}

\* positions of the required fields that are empty after trimming
EmptyFields(fields) ==
  {i \in 1..Len(requiredFields) : Trim(fields[requiredFields[i]]) = << >>}

FirstEmpty(fields) ==
  CHOOSE i \in EmptyFields(fields) : \A j \in EmptyFields(fields) : i <= j

GenerateResponses ==
  {Response("transport", "", NoBody), Response("ok", "OK", NoBody)}
    \cup {Response("http", t, NoBody) : t \in StatusTexts}

GenerateError(r) ==
  IF r.kind = "http" THEN << "Generation failed", r.statusText >> ELSE << "Failed to fetch" >>

\* the test of the answer left out
ResponseOk_Always(r) == TRUE

\* response.ok of a /generate-smart-report answer
ResponseOk(r) == r.kind = "ok"

\* the gate comparing with null only
HasDocument_NullOnly == documentId # NullId

\* the gate left out
HasDocument_Always == TRUE

\* the gate of generateReport: this.documentId is truthy
HasDocument == ~Falsy(documentId)

\* click on generateSmartBtn: generateReport() up to its first await
GenerateReport(fields) ==
  /\ IF ~HasDocument
       THEN /\ showStatus(<< "Please analyze a sample document first." >>, "error")
            /\ UNCHANGED << loadingHidden, progressFill, stepClasses, imageData,
                            generateInFlight >>
       ELSE IF EmptyFields(fields) # {}
         THEN /\ showStatus(<< "Please fill in", requiredFields[FirstEmpty(fields)] >>, "error")
              /\ UNCHANGED << loadingHidden, progressFill, stepClasses, imageData,
                              generateInFlight >>
         ELSE /\ Requests < MaxRequests
              /\ showLoading(TRUE)
              /\ progressFill' = Write("steps", 75, progressFill)
              /\ stepClasses' = Write("steps", updateProgress(stepClasses, 4), stepClasses)
              /\ imageData' = prepareImageData(uploadedImages, captionInputs, sectionSelects)
              /\ generateInFlight' = [generateInFlight EXCEPT ![documentId] = @ + 1]
              /\ UNCHANGED << status, hideTimers >>
  /\ last' = Seen("generateReport")
  /\ UNCHANGED << currentStep, activePanel, documentId, analysisData, sampleFile,
                  analysisPreviewHidden, analyzeInFlight, blobPending, advanceTimers,
                  docFile, storedIds, sentFiles, uploadedImages, captionInputs,
                  sectionSelects >>
  /\ UNCHANGED << geminiVars, uploadVars >>
  /\ UNCHANGED << otherVars, downloadLog >>
  /\ UNCHANGED selectionVars

\* the fetch of a generateReport() call that sent document_id d settles with r
GenerateResponse(d, r) ==
  /\ generateInFlight[d] > 0
  /\ generateInFlight' = [generateInFlight EXCEPT ![d] = @ - 1]
  /\ IF ResponseOk(r)
       THEN /\ progressFill' = Write("steps", 100, progressFill)
            /\ stepClasses' = Write("steps", updateProgress(stepClasses, 4), stepClasses)
            /\ showStatus(<< "Report generated successfully!" >>, "success")
            /\ blobPending' = blobPending + 1
            /\ last' = Seen("generateOk")
            /\ UNCHANGED loadingHidden
       ELSE /\ showStatus(<< "Generation error" >> \o GenerateError(r), "error")
            /\ showLoading(FALSE)
            /\ last' = Seen("generateError")
            /\ UNCHANGED << progressFill, stepClasses, blobPending >>
  /\ UNCHANGED << currentStep, activePanel, documentId, analysisData, sampleFile,
                  analysisPreviewHidden, analyzeInFlight, advanceTimers, docFile,
                  storedIds, sentFiles >>
  /\ UNCHANGED << manifestVars, geminiVars, uploadVars >>
  /\ UNCHANGED << otherVars, downloadLog >>
  /\ UNCHANGED selectionVars

\* response.blob() of a generateReport() call settles: the download, or the catch block
\* the download with the URL released before the click
SmartDownload_RevokesFirst ==
  << << "createObjectURL" >>, << "createElement" >>, << "href" >>,
     << "download", "Smart_Report" >>, << "appendChild" >>,
     << "revokeObjectURL" >>, << "click" >>, << "removeChild" >> >>

\* what generateReport does with the blob, in order; the student name and the
\* roll number of the file name are not kept
SmartDownload ==
  << << "createObjectURL" >>, << "createElement" >>, << "href" >>,
     << "download", "Smart_Report" >>, << "appendChild" >>, << "click" >>,
     << "removeChild" >>, << "revokeObjectURL" >> >>

GenerateBlob(ok) ==
  /\ blobPending > 0
  /\ blobPending' = blobPending - 1
  /\ IF ok
       THEN /\ downloadLog' = Write("download",
                                    [downloadLog EXCEPT !.smart = SmartDownload],
                                    downloadLog)
            /\ last' = Seen("download")
            /\ UNCHANGED << status, hideTimers >>
       ELSE /\ showStatus(<< "Generation error", "Failed to fetch" >>, "error")
            /\ last' = Seen("generateError")
            /\ UNCHANGED downloadLog
  /\ showLoading(FALSE)
  /\ UNCHANGED << stepVars, documentId, analysisData, sampleFile, analysisPreviewHidden,
                  analyzeInFlight, generateInFlight, advanceTimers, docFile, storedIds,
                  sentFiles >>
  /\ UNCHANGED << manifestVars, geminiVars, uploadVars >>
  /\ UNCHANGED otherVars
  /\ UNCHANGED selectionVars

\* ------------------------------------------------------------------------
\* Engine credential
\* ------------------------------------------------------------------------
\* what prompt() returns: null (cancelled), an empty text or a key
Keys == {"null", "", "key"}

\* what the fetch of configureGeminiAPI can settle to: a rejected promise, a
\* body that is not JSON, a JSON body whose status is "success" or is not
ConfigureResponses ==
  {Response("transport", "", ""), Response("unparsable", "OK", ""),
   Response("json", "OK", "success"), Response("json", "OK", "error")}

\* result.status === "success"
Configured(r) == r.kind = "json" /\ r.body = "success"

\* the message of the catch block without the reason
ConfigureFailure_Fixed(r) == << "Failed to configure Gemini API" >>

\* the message shown when the server did not report success: the fixed one of
\* the else branch, or the one of the catch block with error.message
ConfigureFailure(r) ==
  CASE r.kind = "transport"  -> << "Configuration error", "Failed to fetch" >>
    [] r.kind = "unparsable" -> << "Configuration error", "SyntaxError" >>
    [] OTHER                 -> << "Failed to configure Gemini API" >>

\* click on configureGeminiBtn: configureGeminiAPI() up to its await
ConfigureGeminiAPI(key) ==
  /\ IF key \in {"null", ""}
       THEN UNCHANGED << loadingHidden, configureInFlight >>
       ELSE /\ Requests < MaxRequests
            /\ showLoading(TRUE)
            /\ configureInFlight' = configureInFlight + 1
  /\ last' = Seen("configureGeminiAPI")
  /\ UNCHANGED << stepVars, documentId, analysisData, sampleFile, analysisPreviewHidden,
                  status, analyzeInFlight, generateInFlight, blobPending, advanceTimers,
                  hideTimers, docFile, storedIds, sentFiles, uploadInFlight >>
  /\ UNCHANGED << manifestVars, geminiVars >>
  /\ UNCHANGED << otherVars, downloadLog >>
  /\ UNCHANGED selectionVars

\* the fetch of a configureGeminiAPI() call settles with r
ConfigureResponse(r) ==
  /\ configureInFlight > 0
  /\ configureInFlight' = configureInFlight - 1
  /\ IF Configured(r)
       THEN /\ showStatus(<< "Gemini API configured successfully!" >>, "success")
            /\ statusQueries' = statusQueries + 1
            /\ last' = Seen("configureSuccess")
       ELSE /\ showStatus(ConfigureFailure(r), "error")
            /\ last' = Seen("configureError")
            /\ UNCHANGED statusQueries
  /\ showLoading(FALSE)
  /\ UNCHANGED << stepVars, documentId, analysisData, sampleFile, analysisPreviewHidden,
                  analyzeInFlight, generateInFlight, blobPending, advanceTimers,
                  docFile, storedIds, sentFiles, uploadInFlight, observed, apiStatus >>
  /\ UNCHANGED manifestVars
  /\ UNCHANGED << otherVars, downloadLog >>
  /\ UNCHANGED selectionVars

\* ------------------------------------------------------------------------
\* Preview texts
\* ------------------------------------------------------------------------
\* the scores of an analysis, 0 to 100
Scores == 0 .. (100 * ScoreScale)

\* a body of /analyze-sample with the score a preview text is made of
ScoredBodies == {[formatting_preservation_score |-> t] : t \in Scores}

Digits == << "0", "1", "2", "3", "4", "5", "6", "7", "8", "9" >>

\* the decimal digits of a natural number, as a template literal writes it
RECURSIVE DecimalText(_)
DecimalText(n) ==
  IF n < 10 THEN << Digits[n + 1] >>
            ELSE DecimalText(n \div 10) \o << Digits[(n % 10) + 1] >>

\* rounding down
MathRound_Floor(t) == t \div ScoreScale

\* Math.round of t / ScoreScale: the nearest integer, a tie going up
MathRound(t) == (2 * t + ScoreScale) \div (2 * ScoreScale)

\* displayAnalysisResults(analysis), on the analysis held
DisplayAnalysisResults ==
  /\ analysisData # Null
  /\ analysisPreviewHidden' = Write("analysis", FALSE, analysisPreviewHidden)
  /\ formattingScore' =
       Write("score",
             DecimalText(MathRound(analysisData[1].formatting_preservation_score))
               \o << "%" >>,
             formattingScore)
  /\ UNCHANGED << stepVars, documentId, analysisData, sampleFile, status, loadingHidden,
                  analyzeInFlight, generateInFlight, blobPending, advanceTimers,
                  hideTimers, docFile, storedIds, sentFiles, last >>
  /\ UNCHANGED << manifestVars, geminiVars, uploadVars, tradVars, downloadLog >>
  /\ UNCHANGED selectionVars

\* ------------------------------------------------------------------------
\* Traditional page
\* ------------------------------------------------------------------------
\* what the server says in the detail of an error body; NoDetail is a body
\* without one, and an empty detail is falsy
NoDetail == "undefined"
Details == {"", "Template not found", "Invalid roll number"}

\* a non-2xx answer read with response.json()
ErrorBodies ==
  {[kind |-> "unparsable", detail |-> NoDetail]}
    \cup {[kind |-> "json", detail |-> d] : d \in Details \cup {NoDetail}}

\* the answers to a fetch of the traditional page
TradResponses == {"transport", "http", "ok"}

\* the Content-Disposition header of a 2xx answer: none, or one with the file
\* name it gives after filename=, quotes removed, NoName being a header
\* without filename=
NoHeader == << >>
NoName == ""
Names == {"Report_42.docx", "Seminar.docx"}
Headers == {NoHeader} \cup {<< n >> : n \in Names \cup {NoName}}

Filename(header) ==
  IF header # NoHeader /\ header[1] # NoName THEN header[1] ELSE "Report.docx"

\* error.message of what the error branch throws
ErrorMessage(b) ==
  IF b.kind = "unparsable" THEN "Unexpected token"
  ELSE IF b.detail \in {NoDetail, ""} THEN "Failed to generate report"
  ELSE b.detail

\* classList.replace(old, new)
Replace(classes, old, new) ==
  IF old \in classes THEN (classes \ {old}) \cup {new} ELSE classes

\* the catch block
TradCatch(message) ==
  tradStatus' = Write("traditional",
                      [text |-> << "Error", message >>,
                       classes |-> Replace(tradStatus.classes, "loading", "error")],
                      tradStatus)

\* what the listener does with the blob, in order
TradDownload(filename) ==
  << << "createObjectURL" >>, << "createElement" >>, << "href" >>,
     << "download", filename >>, << "appendChild" >>, << "click" >>,
     << "revokeObjectURL" >>, << "remove" >> >>

TradRequests == tradFetch + tradErrorBody + tradBlob

CanSubmit ==
  IF "traditional" \in observed THEN TradRequests < MaxSubmits
                                ELSE Requests < MaxRequests

\* what leaves the smart page alone
smartVars ==
  << stepVars, documentId, analysisData, sampleFile, analysisPreviewHidden, status,
     loadingHidden, analyzeInFlight, generateInFlight, blobPending, advanceTimers,
     hideTimers, docFile, storedIds, sentFiles, manifestVars, geminiVars, uploadVars,
     formattingScore, selectionVars >>

\* submit event of #reportForm: the listener up to its fetch
TradSubmit ==
  /\ CanSubmit
  /\ tradStatus' = Write("traditional",
                         [text |-> << "Generating your report... Please wait." >>,
                          classes |-> (tradStatus.classes \ {"hidden", "error", "success"})
                                        \cup {"loading"}],
                         tradStatus)
  /\ tradDisabled' = Write("traditional", TRUE, tradDisabled)
  /\ tradFetch' = tradFetch + 1
  /\ last' = Seen("submit")
  /\ UNCHANGED << smartVars, tradErrorBody, tradBlob, downloadLog >>

\* the fetch settles: the listener from its first await to the next one, or
\* to its end
TradResponse(r) ==
  /\ tradFetch > 0
  /\ tradFetch' = tradFetch - 1
  /\ CASE r = "transport" ->
            /\ TradCatch("Failed to fetch")
            /\ tradDisabled' = Write("traditional", FALSE, tradDisabled)
            /\ last' = Seen("submitFailed")
            /\ UNCHANGED << tradErrorBody, tradBlob >>
       [] r = "http" ->
            /\ tradErrorBody' = tradErrorBody + 1
            /\ last' = Seen("submitRefused")
            /\ UNCHANGED << tradStatus, tradDisabled, tradBlob >>
       [] OTHER ->
            /\ tradBlob' = tradBlob + 1
            /\ last' = Seen("submitAccepted")
            /\ UNCHANGED << tradStatus, tradDisabled, tradErrorBody >>
  /\ UNCHANGED << smartVars, downloadLog >>

\* response.json() of a non-2xx answer settles: the listener to its end
TradErrorBody(b) ==
  /\ tradErrorBody > 0
  /\ tradErrorBody' = tradErrorBody - 1
  /\ TradCatch(ErrorMessage(b))
  /\ tradDisabled' = Write("traditional", FALSE, tradDisabled)
  /\ last' = Seen(IF b.kind = "json" THEN "submitError" ELSE "submitErrorUnread")
  /\ UNCHANGED << smartVars, tradFetch, tradBlob, downloadLog >>

\* response.blob() settles: the listener to its end
TradBlob(ok, header) ==
  /\ tradBlob > 0
  /\ tradBlob' = tradBlob - 1
  /\ IF ok
       THEN /\ downloadLog' =
                 Write("download",
                       [downloadLog EXCEPT !.traditional = TradDownload(Filename(header))],
                       downloadLog)
            /\ tradStatus' =
                 Write("traditional",
                       [text |-> << "Report generated and downloaded successfully!" >>,
                        classes |-> Replace(tradStatus.classes, "loading", "success")],
                       tradStatus)
            /\ last' = Seen("submitDownload")
       ELSE /\ TradCatch("network error")
            /\ last' = Seen("submitFailed")
            /\ UNCHANGED downloadLog
  /\ tradDisabled' = Write("traditional", FALSE, tradDisabled)
  /\ UNCHANGED << smartVars, tradFetch, tradErrorBody >>

\* ------------------------------------------------------------------------
\* Specifications
\* ------------------------------------------------------------------------
\* the two pages with nothing in flight, no timer pending and nothing on
\* display yet
InitQuiet ==
  /\ formattingScore = << >>
  /\ imageFiles = 0
  /\ uploadFiles = [n \in 1..MaxImages |-> 0]
  /\ downloadLog = [smart |-> << >>, traditional |-> << >>]
  /\ tradStatus = [text |-> << >>, classes |-> {"hidden"}]
  /\ tradDisabled = FALSE
  /\ tradFetch = 0
  /\ tradErrorBody = 0
  /\ tradBlob = 0
  /\ analysisPreviewHidden = TRUE
  /\ activePanel = 1
  /\ stepClasses = [active |-> {1}, completed |-> {}]
  /\ progressFill = 25
  /\ status = [msg |-> << >>, kind |-> "info", hidden |-> TRUE]
  /\ loadingHidden = TRUE
  /\ analyzeInFlight = [f \in Files |-> 0]
  /\ generateInFlight = [d \in AllIds |-> 0]
  /\ blobPending = 0
  /\ statusQueries = 0
  /\ uploadInFlight = 0
  /\ configureInFlight = 0
  /\ apiStatus = ""
  /\ advanceTimers = 0
  /\ hideTimers = 0
  /\ imageData = << >>
  /\ docFile = NoFile
  /\ storedIds = {}
  /\ sentFiles = {}
  /\ last = [op |-> "init", step |-> 1, held |-> NullId]

\* the two pages freshly loaded, the constructor of the smart page having
\* run, whatever analysis is held
InitPage ==
  /\ currentStep = 1
  /\ documentId = NullId
  /\ sampleFile = NoFile
  /\ InitQuiet

\* the session after the constructor has run on the freshly loaded page
InitSession == InitPage /\ analysisData = Null

InitEmptyManifest ==
  /\ uploadedImages = << >>
  /\ captionInputs = << >>
  /\ sectionSelects = << >>

Next ==
  \/ NextStep
  \/ PreviousStep
  \/ AdvanceTimerFire
  \/ HideTimerFire
  \/ \E f \in Files \cup {NoFile} : SampleFileChange(f)
  \/ AnalyzeSample
  \/ \E f \in Files, r \in AnalyzeResponses : AnalyzeResponse(f, r)
  \/ \E a \in StatusAnswers : GeminiStatusResponse(a)
  \/ \E fields \in FieldInputs : GenerateReport(fields)
  \/ \E d \in AllIds, r \in GenerateResponses : GenerateResponse(d, r)
  \/ \E ok \in BOOLEAN : GenerateBlob(ok)
  \/ \E n \in 0..MaxImages : HandleImageUpload(n)
  \/ \E r \in UploadResponses : UploadResponse(r)
  \/ \E key \in Keys : ConfigureGeminiAPI(key)
  \/ \E r \in ConfigureResponses : ConfigureResponse(r)

\* the smart flow, keeping the step display and the handler history
Init == InitSession /\ InitEmptyManifest /\ observed = {"steps", "history"}

Spec == Init /\ [][Next]_vars

\* the smart flow, keeping the analysis result and where it came from
InitAnalysis == InitSession /\ InitEmptyManifest /\ observed = {"analysis", "provenance"}

SpecAnalysis == InitAnalysis /\ [][Next]_vars

\* the smart flow, keeping the status message and the analysis result
InitStatus == InitSession /\ InitEmptyManifest /\ observed = {"status", "analysis"}

SpecStatus == InitStatus /\ [][Next]_vars

\* the same, with the timers of the page firing: a pending 1500 ms timer is
\* not postponed forever
SpecStatusFair == SpecStatus /\ WF_vars(AdvanceTimerFire)

\* the same, with the 5000 ms timers of the page firing
SpecStatusTimers == SpecStatus /\ WF_vars(HideTimerFire)

\* the smart flow, keeping the status message and the engine panel
InitEngine == InitSession /\ InitEmptyManifest /\ observed = {"status", "engine"}

SpecEngine == InitEngine /\ [][Next]_vars

\* the smart flow, keeping the image list with its annotation fields
InitImages == InitSession /\ InitEmptyManifest /\ observed = {"images"}

SpecImages == InitImages /\ [][Next]_vars

\* the manifest builder on every image list with its annotation fields
InitManifest ==
  /\ InitSession
  /\ observed = {"history"}
  /\ \E n \in 0..MaxImages :
       /\ uploadedImages = [i \in 1..n |-> i]
       /\ captionInputs \in [1..n -> Texts(MaxCaptionLen)]
       /\ sectionSelects \in [1..n -> Sections]

NextManifest == PrepareImageData

SpecManifest == InitManifest /\ [][NextManifest]_vars

\* the smart flow, keeping the loading overlay
InitLoading == InitSession /\ InitEmptyManifest /\ observed = {"loading"}

SpecLoading == InitLoading /\ [][Next]_vars

\* the smart flow, keeping the image list and the files of each upload
InitUploads == InitSession /\ InitEmptyManifest /\ observed = {"images", "uploads"}

SpecUploads == InitUploads /\ [][Next]_vars

\* the image step of the wizard once a sample has been analysed and the
\* timers of the analysis have fired: images are selected, captions typed and
\* reports generated, keeping the image list with its annotation fields
InitGallery ==
  /\ InitQuiet
  /\ InitEmptyManifest
  /\ currentStep = 2
  /\ documentId \in DocIds
  /\ sampleFile \in Files
  /\ analysisData = Null
  /\ observed = {"images"}

NextGallery ==
  \/ HideTimerFire
  \/ \E fields \in FieldInputs : GenerateReport(fields)
  \/ \E d \in AllIds, r \in GenerateResponses : GenerateResponse(d, r)
  \/ \E ok \in BOOLEAN : GenerateBlob(ok)
  \/ \E n \in 0..MaxImages : HandleImageUpload(n)
  \/ \E r \in UploadResponses : UploadResponse(r)
  \/ \E i \in 1..MaxImages, text \in Typed : TypeCaption(i, text)

SpecGallery == InitGallery /\ [][NextGallery]_vars

\* the preview texts on every score
InitScore ==
  /\ InitPage
  /\ InitEmptyManifest
  /\ observed = {"analysis", "score"}
  /\ analysisData \in {Some(b) : b \in ScoredBodies}

NextScore == DisplayAnalysisResults

SpecScore == InitScore /\ [][NextScore]_vars

\* the traditional page
NextTraditional ==
  \/ TradSubmit
  \/ \E r \in TradResponses : TradResponse(r)
  \/ \E b \in ErrorBodies : TradErrorBody(b)
  \/ \E ok \in BOOLEAN, header \in Headers : TradBlob(ok, header)

InitTraditional ==
  InitSession /\ InitEmptyManifest /\ observed = {"traditional", "download", "history"}

SpecTraditional == InitTraditional /\ [][NextTraditional]_vars

\* the two pages open side by side, keeping what their downloads did
NextPages == Next \/ NextTraditional

InitDownload == InitSession /\ InitEmptyManifest /\ observed = {"download"}

SpecDownload == InitDownload /\ [][NextPages]_vars

\* ------------------------------------------------------------------------
\* Properties
\* ------------------------------------------------------------------------
displayVars == << activePanel, stepClasses, progressFill >>

allButHistory ==
  << currentStep, documentId, analysisData, uploadedImages, sampleFile,
     analysisPreviewHidden, activePanel, stepClasses, progressFill, status,
     loadingHidden, analyzeInFlight, generateInFlight, blobPending, statusQueries,
     uploadInFlight, configureInFlight, apiStatus, advanceTimers, hideTimers,
     captionInputs, sectionSelects, imageData >>

\* C1: in every reachable state of the smart flow, under any interleaving of
\* navigation, auto-advance timers, sample-file changes and network responses,
\* 1 <= currentStep <= totalSteps, and totalSteps is 4.
C1_StepInRange == currentStep \in 1..totalSteps /\ totalSteps = 4

\* the auto-advance timer has fired at the last step and the step stayed there
C1_Witness ==
  last.op = "autoAdvance" /\ last.step = totalSteps /\ currentStep = totalSteps

\* C2: nextStep run at step 4 (by a click or by the auto-advance timer) leaves
\* currentStep, the visible panel, the progress value and the step indicators
\* unchanged; run at a step below 4 it increases currentStep by exactly 1.
C2_NextStepEffect ==
  [][(NextStep \/ AdvanceTimerFire) =>
       IF currentStep = 4
         THEN UNCHANGED << currentStep, displayVars >>
         ELSE currentStep' = currentStep + 1]_vars

\* nextStep has just run at step 4 while the progress bar showed another value
\* than the one of step 4
C2_Witness ==
  last.op = "nextStep" /\ last.step = 4 /\ currentStep = 4 /\ progressFill # 100

\* C3: previousStep run at step 1 leaves all session and display state
\* unchanged; run at a step above 1 it decreases currentStep by exactly 1.
C3_PreviousStepEffect ==
  [][PreviousStep =>
       IF currentStep = 1
         THEN UNCHANGED allButHistory
         ELSE currentStep' = currentStep - 1]_vars

\* previousStep has just run at step 1 while the progress bar showed another
\* value than the one of step 1
C3_Witness ==
  last.op = "previousStep" /\ last.step = 1 /\ currentStep = 1 /\ progressFill # 25

AnySampleFileChange == \E f \in Files \cup {NoFile} : SampleFileChange(f)

\* C4: whenever the sample-file selection changes, in any state, immediately
\* afterwards analysisData and documentId are both absent and the analysis
\* preview is hidden.
C4_SampleChangeClears ==
  [][AnySampleFileChange =>
       (analysisData' = Null /\ documentId' = NullId /\ analysisPreviewHidden')]_vars

\* the result of an earlier analysis has been cleared, past step 1, while an
\* analyze request for a file that is no longer selected is in flight
C4_Witness ==
  /\ documentId = NullId /\ analysisData = Null /\ analysisPreviewHidden
  /\ storedIds # {}
  /\ currentStep > 1
  /\ \E f \in Files : f # sampleFile /\ analyzeInFlight[f] > 0

\* C5: generateReport run while documentId is absent shows an error status and
\* sends no request, whatever the step and whatever the form fields contain.
C5_GenerateWithoutAnalysis ==
  [][(Falsy(documentId) /\ \E fields \in FieldInputs : GenerateReport(fields)) =>
       /\ status'.kind = "error" /\ ~status'.hidden
       /\ generateInFlight' = generateInFlight
       /\ Requests' = Requests]_vars

\* the error of the gate is shown at step 4, the document id being undefined
C5_Witness ==
  /\ status = [msg |-> << "Please analyze a sample document first." >>,
               kind |-> "error", hidden |-> FALSE]
  /\ documentId = UndefinedId
  /\ currentStep = 4

C7_NoCancellation ==
  [][/\ AnySampleFileChange => analyzeInFlight' = analyzeInFlight
     /\ \A f \in Files, r \in AnalyzeResponses :
          (AnalyzeResponse(f, r) /\ r.kind = "json") =>
            (documentId' = r.body.document_id /\ docFile' = f)]_vars

\* a document id is held that came from another file than the selected one, no
\* analyze request was ever sent for the selected file, and a generate request
\* carrying that id is in flight
C7_Witness ==
  /\ documentId \in DocIds
  /\ sampleFile \in Files /\ docFile \in Files /\ docFile # sampleFile
  /\ sampleFile \notin sentFiles
  /\ generateInFlight[documentId] > 0

Contains(seq, x) == \E i \in 1..Len(seq) : seq[i] = x

\* C8: when an analyze call fails (non-success HTTP status or transport
\* failure) an error status containing the failure reason is shown,
\* currentStep is unchanged and no auto-advance is scheduled.
C8_AnalyzeFailure ==
  [][\A f \in Files, r \in AnalyzeResponses :
       (AnalyzeResponse(f, r) /\ r.kind \in {"http", "transport"}) =>
         /\ status'.kind = "error" /\ ~status'.hidden
         /\ Contains(status'.msg, IF r.kind = "http" THEN r.statusText ELSE "Failed to fetch")
         /\ currentStep' = currentStep
         /\ advanceTimers' = advanceTimers]_vars

\* the error of an analyze call answered with HTTP 500 is shown
C8_Witness ==
  /\ status = [msg |-> << "Analysis error", "Analysis failed", "Internal Server Error" >>,
               kind |-> "error", hidden |-> FALSE]
  /\ advanceTimers = 0

\* what a successful analyze call leaves: the result of the response, a
\* success status and one more auto-advance timer
AnalyzeSuccessEffect ==
  \A f \in Files, r \in AnalyzeResponses :
    (AnalyzeResponse(f, r) /\ AnalyzeSucceeds(r)) =>
      /\ analysisData' = Some(r.body)
      /\ documentId' = r.body.document_id
      /\ status'.kind = "success" /\ ~status'.hidden
      /\ advanceTimers' = advanceTimers + 1

\* C9 as stated: a successful analyze call stores the response, shows a success
\* status, and its timer advances the wizard by one step.
C9_Original ==
  [][/\ AnalyzeSuccessEffect
     /\ AdvanceTimerFire => currentStep' = currentStep + 1]_vars

\* C9 (amended): a successful analyze call stores the response, shows a success
\* status and schedules nextStep: when the timer fires the wizard advances by
\* one step if it is below step 4 and stays at step 4 otherwise, and a wizard
\* below step 4 with a timer pending does not stay at its step forever.
C9_AnalyzeSuccess ==
  /\ [][/\ AnalyzeSuccessEffect
        /\ AdvanceTimerFire =>
             currentStep' = IF currentStep < 4 THEN currentStep + 1 ELSE currentStep]_vars
  /\ \A s \in 1..3 : (advanceTimers > 0 /\ currentStep = s) ~> (currentStep # s)

\* a successful analysis has just been reported and its timer is pending
C9_Witness ==
  /\ status = [msg |-> << "Document analyzed successfully!" >>,
               kind |-> "success", hidden |-> FALSE]
  /\ analysisData # Null /\ documentId \in DocIds
  /\ analysisData[1].document_id = documentId
  /\ advanceTimers > 0

NonBlank(c) == \E k \in 1..Len(c) : c[k] # " "

\* t is c without its leading and trailing blanks
IsTrimOf(t, c) ==
  \E a \in 1..(Len(c) + 1), b \in 0..Len(c) :
    /\ t = SubSeq(c, a, b)
    /\ \A k \in 1..Len(c) : (k < a \/ k > b) => c[k] = " "
    /\ t # << >> => (t[1] # " " /\ t[Len(t)] # " ")

\* C10: prepareImageData returns an entry for image i if and only if its
\* caption is non-empty after trimming, and each entry carries the selected
\* section unchanged and the trimmed caption.
C10_Manifest ==
  last.op = "prepareImageData" =>
    /\ \A i \in 1..Len(uploadedImages) :
         (\E k \in 1..Len(imageData) : imageData[k].filename = uploadedImages[i])
           <=> NonBlank(captionInputs[i])
    /\ \A k \in 1..Len(imageData) :
         \E i \in 1..Len(uploadedImages) :
           /\ imageData[k].filename = uploadedImages[i]
           /\ imageData[k].content_relevance = sectionSelects[i]
           /\ IsTrimOf(imageData[k].caption, captionInputs[i])

\* of two images one has a blank caption and is left out, the other has a
\* caption with a blank around it and section auto and is returned trimmed
C10_Witness ==
  /\ last.op = "prepareImageData"
  /\ Len(uploadedImages) = 2 /\ Len(imageData) = 1
  /\ imageData[1].content_relevance = "auto"
  /\ imageData[1].caption # captionInputs[imageData[1].filename]
  /\ \E i \in 1..2 : captionInputs[i] = << " " >>

\* the positions of the captions that are not blank, in increasing order
CaptionedPositions ==
  LET RECURSIVE From(_)
      From(i) ==
        IF i > Len(captionInputs) THEN << >>
        ELSE (IF NonBlank(captionInputs[i]) THEN << i >> ELSE << >>) \o From(i + 1)
  IN From(1)

\* C11: prepareImageData pairs caption, section and image by position: the
\* k-th entry returned comes from the k-th captioned position i, and carries
\* the filename of uploadedImages[i], the section of select i and the caption
\* of input i; so the entries appear in increasing position order.
C11_PairedByPosition ==
  last.op = "prepareImageData" =>
    /\ Len(imageData) = Len(CaptionedPositions)
    /\ \A k \in 1..Len(imageData) :
         LET i == CaptionedPositions[k] IN
           /\ imageData[k].filename = uploadedImages[i]
           /\ imageData[k].content_relevance = sectionSelects[i]
           /\ IsTrimOf(imageData[k].caption, captionInputs[i])

\* of two images only the second has a caption, with section results: one
\* entry is returned and it references the second image
C11_Witness ==
  /\ last.op = "prepareImageData"
  /\ Len(uploadedImages) = 2
  /\ captionInputs[1] = << >> /\ captionInputs[2] = << "a" >>
  /\ sectionSelects[1] = "auto" /\ sectionSelects[2] = "results"
  /\ imageData = << [filename |-> uploadedImages[2], caption |-> << "a" >>,
                     content_relevance |-> "results"] >>

\* a status message of the given kind is on display
Shown(st, kind) == st.kind = kind /\ ~st.hidden

C13_UploadReplaces ==
  [][\A l \in ImageLists :
       UploadResponse(Response("json", "OK", l)) => uploadedImages' = l]_vars

\* a list of two images is held, and an upload answering with another list is
\* still in flight
C13_Witness ==
  /\ Len(uploadedImages) = 2
  /\ Len(captionInputs) = 2 /\ Len(sectionSelects) = 2
  /\ uploadInFlight > 0

\* C14 as stated: when an upload fails (a transport failure, a non-success
\* HTTP status, a body that cannot be parsed) an error status is shown and
\* uploadedImages is left empty.
C14_UploadFailure ==
  [][\A r \in UploadResponses :
       (UploadResponse(r) /\ r.kind # "json") =>
         (Shown(status', "error") /\ uploadedImages' = << >>)]_vars

\* C15 as stated: for analyze, upload-images and generate, an answer with a
\* non-success HTTP status results in an error status being shown, never a
\* success status.
C15_HttpFailureShown ==
  [][/\ \A f \in Files, r \in AnalyzeResponses :
          (AnalyzeResponse(f, r) /\ r.kind = "http") => Shown(status', "error")
     /\ \A d \in AllIds, r \in GenerateResponses :
          (GenerateResponse(d, r) /\ r.kind = "http") => Shown(status', "error")
     /\ \A r \in UploadResponses :
          (UploadResponse(r) /\ r.kind = "http") => Shown(status', "error")]_vars

\* C17 as stated: an error or info message on display stays on display until
\* a showStatus call replaces it; no timer hides it.
C17_ErrorPersists ==
  [][(status.kind \in {"error", "info"} /\ ~status.hidden) => ~status'.hidden]_vars

\* the requests in flight at /analyze-sample, /upload-images,
\* /generate-smart-report (answer or body pending), /configure-gemini and
\* /gemini-status
InFlight ==
  << analyzeInFlight, uploadInFlight, generateInFlight, blobPending, configureInFlight,
     statusQueries >>

\* bag b with one more request than bag a
OneMore(a, b) == \E k \in DOMAIN a : b = [a EXCEPT ![k] = @ + 1]

\* the step issues one request to the given endpoint and touches no other
IssuesAnalyze ==
  /\ OneMore(analyzeInFlight, analyzeInFlight')
  /\ UNCHANGED << uploadInFlight, generateInFlight, blobPending, configureInFlight,
                  statusQueries >>

IssuesUpload ==
  /\ uploadInFlight' = uploadInFlight + 1
  /\ UNCHANGED << analyzeInFlight, generateInFlight, blobPending, configureInFlight,
                  statusQueries >>

IssuesGenerate ==
  /\ OneMore(generateInFlight, generateInFlight')
  /\ UNCHANGED << analyzeInFlight, uploadInFlight, blobPending, configureInFlight,
                  statusQueries >>

IssuesConfigure ==
  /\ configureInFlight' = configureInFlight + 1
  /\ UNCHANGED << analyzeInFlight, uploadInFlight, generateInFlight, blobPending,
                  statusQueries >>

\* the step settles one request and issues none
SettlesOne ==
  \/ OneMore(analyzeInFlight', analyzeInFlight)
       /\ UNCHANGED << uploadInFlight, generateInFlight, blobPending, configureInFlight,
                       statusQueries >>
  \/ uploadInFlight = uploadInFlight' + 1
       /\ UNCHANGED << analyzeInFlight, generateInFlight, blobPending, configureInFlight,
                       statusQueries >>
  \/ OneMore(generateInFlight', generateInFlight)
       /\ UNCHANGED << analyzeInFlight, uploadInFlight, blobPending, configureInFlight,
                       statusQueries >>
  \/ blobPending = blobPending' + 1
       /\ UNCHANGED << analyzeInFlight, uploadInFlight, generateInFlight, configureInFlight,
                       statusQueries >>
  \/ configureInFlight = configureInFlight' + 1
       /\ UNCHANGED << analyzeInFlight, uploadInFlight, generateInFlight, blobPending,
                       statusQueries >>
  \/ statusQueries = statusQueries' + 1
       /\ UNCHANGED << analyzeInFlight, uploadInFlight, generateInFlight, blobPending,
                       configureInFlight >>

\* C16: a user-triggered analyze, upload, generate or configure action issues
\* at most one request, to its own endpoint; an answer reporting a failure
\* settles its request and issues none; and no timer issues one. (The handler
\* of a step is the one its history record names.)
C16_NoRetry ==
  [][/\ last'.op = "analyzeSample" => (UNCHANGED InFlight \/ IssuesAnalyze)
     /\ last'.op = "handleImageUpload" => (UNCHANGED InFlight \/ IssuesUpload)
     /\ last'.op = "generateReport" => (UNCHANGED InFlight \/ IssuesGenerate)
     /\ last'.op = "configureGeminiAPI" => (UNCHANGED InFlight \/ IssuesConfigure)
     /\ last'.op \in {"analyzeError", "uploadError", "generateError", "configureError",
                      "geminiStatusFailed"} => SettlesOne
     /\ last'.op \in {"autoAdvance", "hideStatus"} => UNCHANGED InFlight]_vars

\* a failed upload has just been reported and nothing is in flight
C16_Witness ==
  /\ last.op = "uploadError"
  /\ Requests + uploadInFlight = 0

\* some required field is empty or holds blanks only
SomeFieldBlank(fields) ==
  \E i \in 1..Len(requiredFields) : ~NonBlank(fields[requiredFields[i]])

\* C18: generateReport run with a document id present and a required field
\* (student name, roll number, topic) empty or blank shows an error status and
\* sends no request.
C18_RequiredFields ==
  [][\/ Shown(status', "error") /\ UNCHANGED InFlight
     \/ ~ /\ ~Falsy(documentId)
          /\ UNCHANGED << currentStep, documentId, sampleFile, analyzeInFlight, blobPending,
                          statusQueries, uploadInFlight, configureInFlight, advanceTimers,
                          hideTimers >>
          /\ \E fields \in FieldInputs : SomeFieldBlank(fields) /\ GenerateReport(fields)]_vars

\* the error naming the roll number is shown while a document id is held
C18_Witness ==
  /\ status = [msg |-> << "Please fill in", "roll_no_smart" >>,
               kind |-> "error", hidden |-> FALSE]
  /\ documentId \in DocIds

\* C19: the engine-status query failing (no answer, or an answer that cannot
\* be used) changes neither the status message nor the analysis result, the
\* step or the pending auto-advance, and leaves the engine panel as it was.
C19_StatusQuerySilent ==
  [][GeminiStatusResponse("unusable") =>
       UNCHANGED << status, hideTimers, analysisData, documentId, analysisPreviewHidden,
                    currentStep, advanceTimers, apiStatus >>]_vars

\* the query of a successful analysis has failed (the engine panel was never
\* written) while the success message is on display and the auto-advance
\* pending
C19_Witness ==
  /\ apiStatus = ""
  /\ statusQueries = 0
  /\ advanceTimers > 0
  /\ currentStep = 1
  /\ documentId \in DocIds
  /\ status = [msg |-> << "Document analyzed successfully!" >>,
               kind |-> "success", hidden |-> FALSE]

\* the status shown by a step is the given message of the given kind
Shows(message, kind) == status' = [msg |-> message, kind |-> kind, hidden |-> FALSE]

\* C20 as stated: configureGeminiAPI reports success when the server reports
\* success, and on every other outcome the same fixed message without detail.
C20_Original ==
  [][\A r \in ConfigureResponses :
       ConfigureResponse(r) =>
         IF r.kind = "json" /\ r.body = "success"
           THEN Shows(<< "Gemini API configured successfully!" >>, "success")
           ELSE Shows(<< "Failed to configure Gemini API" >>, "error")]_vars

\* C20 (amended): configureGeminiAPI reports success when the server reports
\* success, the fixed message without detail when the server's answer reports
\* anything else, and a configuration error carrying the reason when the
\* request fails or its answer cannot be parsed.
C20_ConfigureOutcome ==
  [][\A r \in ConfigureResponses :
       ConfigureResponse(r) =>
         CASE r.kind = "json" /\ r.body = "success" ->
                Shows(<< "Gemini API configured successfully!" >>, "success")
           [] r.kind = "json" /\ r.body # "success" ->
                Shows(<< "Failed to configure Gemini API" >>, "error")
           [] r.kind = "transport" ->
                Shows(<< "Configuration error", "Failed to fetch" >>, "error")
           [] OTHER ->
                Shows(<< "Configuration error", "SyntaxError" >>, "error")]_vars

\* a configuration whose request failed has been reported with its reason
C20_Witness ==
  /\ status = [msg |-> << "Configuration error", "Failed to fetch" >>,
               kind |-> "error", hidden |-> FALSE]
  /\ configureInFlight = 0

\* C22 as stated: in every reachable state with currentStep = 4 a document id
\* is held.
C22_Step4Gated == currentStep = 4 => ~Falsy(documentId)

\* C25: right after a nextStep or previousStep that moved, the progress value
\* is currentStep / totalSteps * 100, the panel on display is the one of
\* currentStep, the steps before it are marked completed, it is marked active,
\* and no step after it is marked active or completed.
C25_DisplayFollowsStep ==
  [][((NextStep \/ PreviousStep \/ AdvanceTimerFire) /\ currentStep' # currentStep) =>
       /\ progressFill' * totalSteps = currentStep' * 100
       /\ progressFill' \in {25, 50, 75, 100}
       /\ activePanel' = currentStep'
       /\ \A i \in Steps :
            /\ i < currentStep' => i \in stepClasses'.completed
            /\ i = currentStep' => i \in stepClasses'.active
            /\ i > currentStep' => i \notin stepClasses'.active \cup stepClasses'.completed]_vars

\* previousStep has led back to step 3 from step 4
C25_Witness ==
  /\ last.op = "previousStep" /\ last.step = 4
  /\ currentStep = 3 /\ activePanel = 3 /\ progressFill = 75
  /\ stepClasses = [active |-> {1, 2, 3}, completed |-> {1, 2}]

\* C29 as stated: in every reachable state a document id is held if and only
\* if analysisData is.
C29_IdIffData == ~Falsy(documentId) <=> analysisData # Null

\* C30 as stated: an analyze call that ends by showing an Analysis error (its
\* request failed, or its answer could not be parsed or displayed) leaves
\* analysisData and documentId as they were and schedules no auto-advance.
C30_ErrorStoresNothing ==
  [][\A f \in Files, r \in AnalyzeResponses :
       (AnalyzeResponse(f, r) /\ ~(r.kind = "json" /\ r.body.complete)) =>
         UNCHANGED << analysisData, documentId, advanceTimers >>]_vars

\* an analysis result is held
Held(id, data) == ~Falsy(id) /\ data # Null

\* C26 as stated: only a sample-file change turns a held analysis result into
\* an absent one, and every step but a sample-file change and a successful
\* analyze leaves documentId and analysisData as they were.
C26_OnlyChangeClears ==
  [][/\ (Held(documentId, analysisData) /\ ~Held(documentId', analysisData')) =>
          AnySampleFileChange
     /\ \/ UNCHANGED << documentId, analysisData >>
        \/ AnySampleFileChange
        \/ \E f \in Files, r \in AnalyzeResponses :
             r.kind = "json" /\ r.body.complete /\ AnalyzeResponse(f, r)]_vars

\* the history records of the steps that report a failed action
FailureOps == {"analyzeError", "uploadError", "generateError", "configureError"}

\* C21 as stated: a failed analyze, upload, generate or configure action
\* leaves currentStep unchanged and a held document id held, and the same
\* action can be invoked again and then issues a new request.
C21_ErrorsTerminal ==
  /\ [][last'.op \in FailureOps =>
          /\ currentStep' = currentStep
          /\ ~Falsy(documentId) => documentId' = documentId]_vars
  /\ [](/\ (last.op = "analyzeError" /\ sampleFile # NoFile) =>
             ENABLED (AnalyzeSample /\ IssuesAnalyze)
        /\ last.op = "uploadError" =>
             ENABLED (HandleImageUpload(1) /\ IssuesUpload)
        /\ (last.op = "generateError" /\ ~Falsy(documentId)) =>
             ENABLED ((\E fields \in FieldInputs : GenerateReport(fields)) /\ IssuesGenerate)
        /\ last.op = "configureError" =>
             ENABLED (ConfigureGeminiAPI("key") /\ IssuesConfigure))

\* C27: a success message schedules exactly one hide (an error message none),
\* a hide is pending for as long as a success message is on display, and a
\* success message on display does not stay on display forever: it is hidden,
\* unless another message replaces it first.
C27_SuccessHidden ==
  /\ [][/\ (status' # status /\ Shown(status', "success")) => hideTimers' = hideTimers + 1
        /\ (status' # status /\ Shown(status', "error")) => hideTimers' = hideTimers
        /\ hideTimers' > hideTimers => Shown(status', "success")]_vars
  /\ [](Shown(status, "success") => hideTimers > 0)
  /\ Shown(status, "success") ~> ~Shown(status, "success")

\* the success message of a generation has been hidden by its timer
C27_Witness ==
  /\ status = [msg |-> << "Report generated successfully!" >>,
               kind |-> "success", hidden |-> TRUE]
  /\ hideTimers = 0

\* the value a digit string denotes
DigitValue(c) == CHOOSE d \in 0..9 : Digits[d + 1] = c

RECURSIVE ParseDecimal(_)
ParseDecimal(t) ==
  IF t = << >> THEN 0
  ELSE 10 * ParseDecimal(SubSeq(t, 1, Len(t) - 1)) + DigitValue(t[Len(t)])

\* a text of decimal digits without a leading zero, followed by a percent sign
IsPercentage(text) ==
  /\ Len(text) >= 2
  /\ text[Len(text)] = "%"
  /\ \A i \in 1..(Len(text) - 1) : \E d \in 0..9 : Digits[d + 1] = text[i]
  /\ Len(text) > 2 => text[1] # "0"

\* n is an integer nearest to t / ScoreScale
Nearest(n, t) ==
  /\ 2 * (n * ScoreScale - t) <= ScoreScale
  /\ 2 * (t - n * ScoreScale) <= ScoreScale

\* C28: the formatting score displayed is the formatting_preservation_score of
\* the analysis rounded to a nearest integer, written in decimal and followed
\* by "%", for every score from 0 to 100.
C28_ScoreRounded ==
  formattingScore # << >> =>
    /\ IsPercentage(formattingScore)
    /\ Nearest(ParseDecimal(SubSeq(formattingScore, 1, Len(formattingScore) - 1)),
               analysisData[1].formatting_preservation_score)

\* a score of 97.4 displayed as 97%
C28_Witness ==
  /\ analysisData = Some([formatting_preservation_score |-> 97 * ScoreScale + 4])
  /\ formattingScore = << "9", "7", "%" >>

\* how often, and where, a download did something
Count(log, name) == Cardinality({i \in 1..Len(log) : log[i][1] = name})
Position(log, name) == CHOOSE i \in 1..Len(log) : log[i][1] = name

ClickBeforeRevoke(log) ==
  /\ Count(log, "createObjectURL") = 1
  /\ Count(log, "click") = 1
  /\ Count(log, "revokeObjectURL") = 1
  /\ Position(log, "createObjectURL") < Position(log, "click")
  /\ Position(log, "click") < Position(log, "revokeObjectURL")

\* C24: on both pages a download creates the object URL, clicks the anchor and
\* only then revokes the URL, all within the one step that handles the blob:
\* in no state is a URL created and not yet revoked.
C24_ClickBeforeRevoke ==
  \A page \in {"smart", "traditional"} :
    downloadLog[page] # << >> => ClickBeforeRevoke(downloadLog[page])

\* both pages have downloaded a report
C24_Witness ==
  /\ downloadLog.smart # << >>
  /\ downloadLog.traditional # << >>
  /\ Position(downloadLog.smart, "click") = 6
  /\ Position(downloadLog.traditional, "revokeObjectURL") = 7

\* the error statuses that carry the detail of the server or the default message
TradErrorTexts ==
  {<< "Error", d >> : d \in Details \ {""}} \cup {<< "Error", "Failed to generate report" >>}

\* C23: on the traditional page a submission issues exactly one
\* /generate-report request; an answer read to its end as a success makes
\* exactly one download and a success status; a non-success answer makes no
\* download and an error status with the detail of the server or the default
\* message.
C23_TraditionalOutcomes ==
  [][/\ last'.op = "submit" =>
          /\ tradFetch' = tradFetch + 1
          /\ UNCHANGED << tradErrorBody, tradBlob, downloadLog >>
     /\ last'.op = "submitDownload" =>
          /\ Count(downloadLog'.traditional, "click") = 1
          /\ tradStatus'.text = << "Report generated and downloaded successfully!" >>
          /\ TradRequests' = TradRequests - 1
     /\ last'.op \in {"submitError", "submitErrorUnread"} =>
          /\ downloadLog' = downloadLog
          /\ tradStatus'.text \in TradErrorTexts
          /\ TradRequests' = TradRequests - 1]_vars

\* C31: the timer set by a successful analysis moves the wizard only from
\* step 1 to step 2: when it fires it does not move the wizard out of step 2
\* or step 3, and it does not move a wizard whose analysis has been cleared.
C31_AdvanceOnlyFromStep1 ==
  [][(advanceTimers' < advanceTimers /\ currentStep' # currentStep) =>
       /\ currentStep = 1
       /\ currentStep' = 2
       /\ documentId # NullId]_vars

\* C36: whenever no response is awaited, the step indicators agree with the
\* current step: a step is marked active iff its index is at most currentStep
\* and completed iff its index is below it.
C36_IndicatorsAgree ==
  Requests = 0 =>
    /\ stepClasses.active = {i \in Steps : i <= currentStep}
    /\ stepClasses.completed = {i \in Steps : i < currentStep}

\* no analyze, upload, generate or configure call is awaiting its answer
NoCallPending ==
  /\ analyzeInFlight = [f \in Files |-> 0]
  /\ generateInFlight = [d \in AllIds |-> 0]
  /\ blobPending = 0
  /\ uploadInFlight = 0
  /\ configureInFlight = 0

\* C34: whenever no analyze, upload-images, generate or configure request is
\* in flight the loading overlay is hidden.
C34_OverlayHidden == NoCallPending => loadingHidden

\* an analysis has shown the overlay and, its answer stored, hidden it again
C34_Witness ==
  /\ NoCallPending
  /\ loadingHidden
  /\ documentId \in DocIds
  /\ advanceTimers > 0

FilesOf(n) == [i \in 1..n |-> i]

\* C32: when the uploads that were in flight together have all been answered,
\* each with the files it sent, the image list is that of the files selected
\* last, whatever the order of the answers.
C32_LatestSelectionWins ==
  [][\A n \in 1..MaxImages :
       (/\ uploadFiles'[n] < uploadFiles[n]
        /\ uploadInFlight' = 0
        /\ imageFiles > 0
        /\ uploadedImages' = FilesOf(n))
       => /\ uploadedImages' = FilesOf(imageFiles)
          /\ Len(captionInputs') = imageFiles]_vars

\* a generate request has just been sent
GenerateSent == \E d \in AllIds : generateInFlight'[d] > generateInFlight[d]

\* an upload has just failed: its answer settled and left the list as it was
UploadFailed ==
  /\ uploadInFlight' < uploadInFlight
  /\ UNCHANGED << uploadedImages, captionInputs, sectionSelects >>

\* C33: every entry of the manifest sent with a generate request names a file
\* of the image list held then; the manifest sent while an upload is in flight
\* is empty, and so is the manifest the page holds after a failed upload.
C33_ManifestFromList ==
  [][/\ GenerateSent =>
          /\ \A k \in 1..Len(imageData') :
               \E i \in 1..Len(uploadedImages) :
                 uploadedImages[i] = imageData'[k].filename
          /\ uploadInFlight > 0 => imageData' = << >>
     /\ UploadFailed =>
          prepareImageData(uploadedImages', captionInputs', sectionSelects') = << >>]_vars


====
